---- MODULE Spec2Model ----
(***************************************************************************)
(* Model of the SEO bulk page generator (src/app.py): the keyword parser,  *)
(* the style extractor, the meta/schema builder, the content generator's   *)
(* parse-or-fallback step, the batch loop behind "Generate All Pages" and  *)
(* the ZIP export.                                                         *)
(*                                                                         *)
(* Python strings are sequences of one-character strings, so that strip,   *)
(* split, replace, slicing and the regular expressions act on characters.  *)
(***************************************************************************)
EXTENDS Integers, Sequences, FiniteSets, TLC

(* ---------------------------------------------------------------------- *)
(* Bounds of the explored inputs                                           *)
(* ---------------------------------------------------------------------- *)

\* longest keyword text given to parse_keywords_input in SpecParse
MaxTextLen == 5

\* longest keyword given to generate_meta_tags in SpecMeta
MaxKeywordLen == 60

\* number of document fragments a style source is assembled from in SpecStyle
NumPieces == 9

(* ---------------------------------------------------------------------- *)
(* Python string primitives                                                *)
(* ---------------------------------------------------------------------- *)

\* the characters str.strip() and the regex class \s remove
Whitespace == {" ", "\n", "\t", "\r"}

Min(a, b) == IF a < b THEN a ELSE b

MinOf(S) == CHOOSE x \in S : \A y \in S : x <= y

Range(s) == {s[i] : i \in 1..Len(s)}

\* s[:n]
Take(s, n) == SubSeq(s, 1, Min(n, Len(s)))

\* s[i:]  (i is 1-based here)
Drop(s, i) == SubSeq(s, i, Len(s))

RECURSIVE LStrip(_)
LStrip(s) ==
    IF s = <<>> THEN s
    ELSE IF Head(s) \in Whitespace THEN LStrip(Tail(s)) ELSE s

RECURSIVE RStrip(_)
RStrip(s) ==
    IF s = <<>> THEN s
    ELSE IF s[Len(s)] \in Whitespace THEN RStrip(SubSeq(s, 1, Len(s) - 1)) ELSE s

\* str.strip()
Strip(s) == RStrip(LStrip(s))

\* sep in s
Contains(s, sep) == \E i \in 1..Len(s) : s[i] = sep

\* index of the first sep in s (s contains one)
FirstIndex(s, sep) == CHOOSE i \in 1..Len(s) : s[i] = sep /\ \A j \in 1..(i - 1) : s[j] # sep

\* str.split(sep) for a one-character separator
RECURSIVE Split(_, _)
Split(s, sep) ==
    IF ~Contains(s, sep) THEN <<s>>
    ELSE LET i == FirstIndex(s, sep)
         IN  <<SubSeq(s, 1, i - 1)>> \o Split(Drop(s, i + 1), sep)

\* positions where a pair of spaces starts
DoubleSpaces(s) == {i \in 1..(Len(s) - 1) : s[i] = " " /\ s[i + 1] = " "}

\* str.replace("  ", " "): the leftmost pair of spaces becomes one space, then the
\* text after that pair is treated the same way
RECURSIVE ReplaceDoubleSpace(_)
ReplaceDoubleSpace(s) ==
    IF DoubleSpaces(s) = {} THEN s
    ELSE LET i == MinOf(DoubleSpaces(s))
         IN  SubSeq(s, 1, i) \o ReplaceDoubleSpace(Drop(s, i + 2))

\* str.replace(a, b) for one-character a and b
ReplaceChar(s, a, b) == [i \in 1..Len(s) |-> IF s[i] = a THEN b ELSE s[i]]

UpperLetters == <<"A","B","C","D","E","F","G","H","I","J","K","L","M","N","O","P","Q","R","S","T","U","V","W","X","Y","Z">>
LowerLetters == <<"a","b","c","d","e","f","g","h","i","j","k","l","m","n","o","p","q","r","s","t","u","v","w","x","y","z">>

LowerChar(c) ==
    IF \E i \in 1..26 : UpperLetters[i] = c
    THEN LowerLetters[CHOOSE i \in 1..26 : UpperLetters[i] = c]
    ELSE c

\* str.lower()
Lower(s) == [i \in 1..Len(s) |-> LowerChar(s[i])]

\* the literal lit occurs in s at position i
StartsAt(s, i, lit) ==
    /\ i + Len(lit) - 1 <= Len(s)
    /\ \A k \in 1..Len(lit) : s[i + k - 1] = lit[k]

(* ---------------------------------------------------------------------- *)
(* Keyword Parser                                                          *)
(* ---------------------------------------------------------------------- *)

EmptyStr == <<>>

\* parts[k].strip() if len(parts) > k else ''   (k counted from 0)
PartOrEmpty(parts, k) == IF Len(parts) > k THEN Strip(parts[k + 1]) ELSE EmptyStr

\* the dictionary appended for one kept line (already stripped)
ParseLine(line) ==
    IF Contains(line, ",")
    THEN LET parts == Split(line, ",")
         IN  [keyword |-> Strip(parts[1]),
              city    |-> PartOrEmpty(parts, 1),
              state   |-> PartOrEmpty(parts, 2),
              country |-> PartOrEmpty(parts, 3)]
    ELSE [keyword |-> line, city |-> EmptyStr, state |-> EmptyStr, country |-> EmptyStr]

\* faulty variant of KeepLine: comment lines are kept
KeepLineWithComments(line) == line # EmptyStr

\* if line and not line.startswith('#')
KeepLine(line) == line # EmptyStr /\ line[1] # "#"

RECURSIVE ParseLines(_)
ParseLines(lines) ==
    IF lines = <<>> THEN <<>>
    ELSE LET line == Strip(Head(lines))
         IN  (IF KeepLine(line) THEN <<ParseLine(line)>> ELSE <<>>)
             \o ParseLines(Tail(lines))

parse_keywords_input(keyword_input) == ParseLines(Split(Strip(keyword_input), "\n"))

(* ---------------------------------------------------------------------- *)
(* Style Extractor                                                         *)
(* ---------------------------------------------------------------------- *)

HexDigits == Range(<<"0","1","2","3","4","5","6","7","8","9","a","b","c","d","e","f","A","B","C","D","E","F">>)

\* n hexadecimal digits start at position i
HexRun(s, i, n) ==
    /\ i + n - 1 <= Len(s)
    /\ \A k \in i..(i + n - 1) : s[k] \in HexDigits

\* length matched by  rgb\([^)]+\)  whose opening literal has p characters
ParenLen(s, i, p) ==
    LET closers == {j \in (i + p)..Len(s) : s[j] = ")"}
    IN  IF closers = {} THEN 0
        ELSE LET j == MinOf(closers)
             IN  IF j > i + p THEN j - i + 1 ELSE 0

\* length of the match of color_pattern at position i, 0 when there is none
ColorMatchLen(s, i) ==
    IF s[i] = "#" /\ HexRun(s, i + 1, 3)
    THEN (IF HexRun(s, i + 4, 3) THEN 7 ELSE 4)
    ELSE IF StartsAt(s, i, <<"r","g","b","(">>) THEN ParenLen(s, i, 4)
    ELSE IF StartsAt(s, i, <<"r","g","b","a","(">>) THEN ParenLen(s, i, 5)
    ELSE 0

\* re.findall(color_pattern, html_content), scanning from position i
RECURSIVE FindColors(_, _)
FindColors(s, i) ==
    LET starts == {j \in i..Len(s) : ColorMatchLen(s, j) > 0}
    IN  IF starts = {} THEN <<>>
        ELSE LET j == MinOf(starts)
                 n == ColorMatchLen(s, j)
             IN  <<SubSeq(s, j, j + n - 1)>> \o FindColors(s, j + n)

Quotes == {"'", "\""}

\* the characters the captured group [^'";\n]+ stops at
FontStop == Quotes \cup {";", "\n"}

FontLiteral == <<"f","o","n","t","-","f","a","m","i","l","y",":">>

\* number of whitespace characters from position p on
RECURSIVE WsRun(_, _)
WsRun(s, p) == IF p <= Len(s) /\ s[p] \in Whitespace THEN 1 + WsRun(s, p + 1) ELSE 0

\* number of characters outside FontStop from position p on
RECURSIVE NameRun(_, _)
NameRun(s, p) == IF p <= Len(s) /\ s[p] \notin FontStop THEN 1 + NameRun(s, p + 1) ELSE 0

\* the match of font_pattern at position i when \s* takes j characters:
\* [ok, name, next], next being the position after the match
FontTry(s, i, j) ==
    LET p  == i + Len(FontLiteral) + j
        g  == IF p <= Len(s) /\ s[p] \in Quotes THEN p + 1 ELSE p
        n  == NameRun(s, g)
        e  == g + n
        nx == IF e <= Len(s) /\ s[e] = ";" THEN e + 1
              ELSE IF e + 1 <= Len(s) /\ s[e] \in Quotes /\ s[e + 1] = ";" THEN e + 2
              ELSE 0
    IN  [ok |-> n > 0 /\ nx > 0, name |-> SubSeq(s, g, e - 1), next |-> nx]

\* the match of font_pattern at position i (re.IGNORECASE), backtracking over \s*
FontMatch(s, i) ==
    IF ~StartsAt(Lower(SubSeq(s, i, Min(Len(s), i + Len(FontLiteral) - 1))), 1, FontLiteral)
    THEN [ok |-> FALSE, name |-> EmptyStr, next |-> 0]
    ELSE LET w    == WsRun(s, i + Len(FontLiteral))
             good == {j \in 0..w : FontTry(s, i, j).ok}
         IN  IF good = {} THEN [ok |-> FALSE, name |-> EmptyStr, next |-> 0]
             ELSE FontTry(s, i, CHOOSE j \in good : \A k \in good : k <= j)

\* re.findall(font_pattern, html_content, re.IGNORECASE), scanning from position i
RECURSIVE FindFonts(_, _)
FindFonts(s, i) ==
    LET starts == {j \in i..Len(s) : FontMatch(s, j).ok}
    IN  IF starts = {} THEN <<>>
        ELSE LET m == FontMatch(s, MinOf(starts))
             IN  <<m.name>> \o FindFonts(s, m.next)

\* list(set(xs))[:k]: a set has no order, so any k of its elements in any order
RECURSIVE Arrangements(_, _)
Arrangements(S, k) ==
    IF k = 0 \/ S = {} THEN {<<>>}
    ELSE UNION {{<<x>> \o r : r \in Arrangements(S \ {x}, k - 1)} : x \in S}

max_colors == 5
max_fonts == 3

FallbackFonts == <<<<"A","r","i","a","l">>, <<"H","e","l","v","e","t","i","c","a">>, <<"s","a","n","s","-","s","e","r","i","f">>>>

\* faulty variant of extract_colors_from_html: the [:5] slice is missing
extract_colors_uncut(html_content) ==
    LET found == Range(FindColors(html_content, 1))
    IN  Arrangements(found, Cardinality(found))

\* the lists extract_colors_from_html(html_content) can return
extract_colors_from_html(html_content) ==
    Arrangements(Range(FindColors(html_content, 1)), max_colors)

\* the lists extract_fonts_from_html(html_content) can return
extract_fonts_from_html(html_content) ==
    LET found == Range(FindFonts(html_content, 1))
    IN  IF found = {} THEN {FallbackFonts} ELSE Arrangements(found, max_fonts)

(* ---------------------------------------------------------------------- *)
(* Meta/Schema Builder                                                     *)
(* ---------------------------------------------------------------------- *)

title_length == 55
desc_length == 155
summary_length == 80

\* f" in {city}" if city else "", then += f", {country}" if country else ""
MetaLocationText(city, country) ==
    (IF city # EmptyStr THEN <<" ","i","n"," ">> \o city ELSE EmptyStr)
    \o (IF country # EmptyStr THEN <<","," ">> \o country ELSE EmptyStr)

\* x or default
OrElse(x, default) == IF x # EmptyStr THEN x ELSE default

\* faulty variant of generate_meta_tags: the description is cut before the summary
\* is added instead of after
generate_meta_tags_early_cut(keyword, city, country, content_summary) ==
    LET location_text == MetaLocationText(city, country)
        meta_title ==
            Take(ReplaceDoubleSpace(keyword \o location_text \o <<" ","|"," ","P","r","o","f","e","s","s","i","o","n","a","l"," ","S","e","r","v","i","c","e","s">>),
                 title_length)
        meta_desc ==
            Take(ReplaceDoubleSpace(<<"E","x","p","e","r","t"," ">> \o keyword \o <<" ","s","e","r","v","i","c","e","s">> \o location_text),
                 desc_length)
            \o <<"."," ">> \o Take(content_summary, summary_length) \o <<".",".",".">>
    IN  [title       |-> meta_title,
         description |-> meta_desc,
         keywords    |-> keyword \o <<","," ">> \o keyword \o <<" ","s","e","r","v","i","c","e","s",","," ","p","r","o","f","e","s","s","i","o","n","a","l"," ">> \o keyword,
         schema      |-> [name            |-> keyword,
                          description     |-> meta_desc,
                          areaServed      |-> OrElse(country, <<"W","o","r","l","d","w","i","d","e">>),
                          addressLocality |-> city,
                          addressRegion   |-> EmptyStr,
                          addressCountry  |-> OrElse(country, <<"U","S">>)]]

generate_meta_tags(keyword, city, country, content_summary) ==
    LET location_text == MetaLocationText(city, country)
        meta_title ==
            Take(ReplaceDoubleSpace(keyword \o location_text \o <<" ","|"," ","P","r","o","f","e","s","s","i","o","n","a","l"," ","S","e","r","v","i","c","e","s">>),
                 title_length)
        meta_desc ==
            Take(ReplaceDoubleSpace(<<"E","x","p","e","r","t"," ">> \o keyword \o <<" ","s","e","r","v","i","c","e","s">> \o location_text
                                    \o <<"."," ">> \o Take(content_summary, summary_length) \o <<".",".",".">>),
                 desc_length)
    IN  [title       |-> meta_title,
         description |-> meta_desc,
         keywords    |-> keyword \o <<","," ">> \o keyword \o <<" ","s","e","r","v","i","c","e","s",","," ","p","r","o","f","e","s","s","i","o","n","a","l"," ">> \o keyword,
         schema      |-> [name            |-> keyword,
                          description     |-> meta_desc,
                          areaServed      |-> OrElse(country, <<"W","o","r","l","d","w","i","d","e">>),
                          addressLocality |-> city,
                          addressRegion   |-> EmptyStr,
                          addressCountry  |-> OrElse(country, <<"U","S">>)]]

(* ---------------------------------------------------------------------- *)
(* Content Generator                                                       *)
(* ---------------------------------------------------------------------- *)

\* What one call of the generation service can do:
\*   "error"       ChatCompletion.create raises, or the reply has no choice
\*   "text"        the reply is not JSON
\*   "json_object" the reply is a JSON object with the keys h1, intro, benefits, cta
\*   "json_empty"  the reply is JSON for a false value ({}, [], "", 0, false)
\*   "json_other"  the reply is JSON for a true value that is no object (42, "ok", [1])
ServiceOutcomes == {"error", "text", "json_object", "json_empty", "json_other"}

\* Python values a call can return, tagged by type
PyNone == [type |-> "NoneType", truthy |-> FALSE]
PyEmptyDict == [type |-> "dict", truthy |-> FALSE]
PyNumber == [type |-> "int", truthy |-> TRUE]

\* location_context of generate_content_with_openai
LocationContext(city, state, country) ==
    (IF city # EmptyStr THEN <<" ","i","n"," ">> \o city ELSE EmptyStr)
    \o (IF state # EmptyStr THEN <<","," ">> \o state ELSE EmptyStr)
    \o (IF country # EmptyStr THEN <<","," ">> \o country ELSE EmptyStr)

\* the dictionary of the bare except around json.loads
FallbackContent(keyword, city, state, country) ==
    LET location_context == LocationContext(city, state, country)
    IN  [type |-> "dict", truthy |-> TRUE,
         h1 |-> <<"P","r","o","f","e","s","s","i","o","n","a","l"," ">> \o keyword \o <<" ","S","e","r","v","i","c","e","s">> \o location_context,
         intro |-> <<"L","o","o","k","i","n","g"," ","f","o","r"," ","q","u","a","l","i","t","y"," ">> \o keyword \o <<" ","s","e","r","v","i","c","e","s">> \o location_context
                   \o <<"?"," ","W","e"," ","p","r","o","v","i","d","e"," ","e","x","p","e","r","t"," ","s","o","l","u","t","i","o","n","s"," ","t","a","i","l","o","r","e","d"," ","t","o"," ","y","o","u","r"," ","n","e","e","d","s",".">>,
         benefits |-> <<
            [title |-> <<"E","x","p","e","r","t"," ","T","e","a","m">>,
             description |-> <<"O","u","r"," ","e","x","p","e","r","i","e","n","c","e","d"," ","p","r","o","f","e","s","s","i","o","n","a","l","s"," ","d","e","l","i","v","e","r"," ","t","o","p","-","q","u","a","l","i","t","y"," ">>
                             \o keyword \o <<" ","s","e","r","v","i","c","e","s",".">>],
            [title |-> <<"A","f","f","o","r","d","a","b","l","e"," ","P","r","i","c","i","n","g">>,
             description |-> <<"C","o","m","p","e","t","i","t","i","v","e"," ","r","a","t","e","s"," ","f","o","r"," ">> \o keyword
                             \o <<" ","w","i","t","h","o","u","t"," ","c","o","m","p","r","o","m","i","s","i","n","g"," ","q","u","a","l","i","t","y",".">>],
            [title |-> <<"F","a","s","t"," ","S","e","r","v","i","c","e">>,
             description |-> <<"Q","u","i","c","k"," ","t","u","r","n","a","r","o","u","n","d"," ","o","n"," ">> \o keyword
                             \o <<" ","p","r","o","j","e","c","t","s"," ","w","h","i","l","e"," ","m","a","i","n","t","a","i","n","i","n","g"," ","e","x","c","e","l","l","e","n","c","e",".">>]>>,
         cta |-> <<"C","o","n","t","a","c","t"," ","u","s"," ","t","o","d","a","y"," ","f","o","r"," ","p","r","o","f","e","s","s","i","o","n","a","l"," ">> \o keyword \o <<" ","s","e","r","v","i","c","e","s","!">>]

\* a well-formed reply of the service, as json.loads returns it
ServiceContent ==
    [type |-> "dict", truthy |-> TRUE,
     h1 |-> <<"T","r","u","s","t","e","d"," ","L","o","c","a","l"," ","E","x","p","e","r","t","s">>,
     intro |-> <<"W","e"," ","a","r","e"," ","t","h","e"," ","t","e","a","m"," ","t","h","a","t"," ","t","h","e"," ","w","h","o","l","e"," ","n","e","i","g","h","b","o","u","r","h","o","o","d"," ","c","a","l","l","s"," ","f","i","r","s","t",","," "," ","d","a","y"," ","o","r"," ","n","i","g","h","t",","," ","f","o","r"," ","e","v","e","r","y"," ","j","o","b"," ","l","a","r","g","e"," ","o","r"," ","s","m","a","l","l",".">>,
     benefits |-> <<[title |-> <<"L","i","c","e","n","s","e","d">>, description |-> <<"F","u","l","l","y"," ","l","i","c","e","n","s","e","d"," ","a","n","d"," ","i","n","s","u","r","e","d",".">>]>>,
     cta |-> <<"C","a","l","l"," ","n","o","w","!">>]

\* the value generate_content_with_openai returns when the service does `outcome`
generate_content_with_openai(keyword, city, state, country, outcome) ==
    CASE outcome = "error"       -> PyNone
      [] outcome = "text"        -> FallbackContent(keyword, city, state, country)
      [] outcome = "json_object" -> ServiceContent
      [] outcome = "json_empty"  -> PyEmptyDict
      [] outcome = "json_other"  -> PyNumber

(* ---------------------------------------------------------------------- *)
(* Page Renderer                                                           *)
(* ---------------------------------------------------------------------- *)

\* The page is its template with values interpolated; the template text is fixed.
\* The holes filled from meta_tags and content repeat the PageResult's own meta and
\* content, so the page is represented by the remaining interpolated values.
generate_html_page(keyword, city, state, country, content, meta_tags, colors, fonts) ==
    [font            |-> IF fonts # <<>> THEN fonts[1] ELSE <<"A","r","i","a","l">>,
     primary_color   |-> IF colors # <<>> THEN colors[1] ELSE <<"#","6","6","7","e","e","a">>,
     secondary_color |-> IF Len(colors) > 1 THEN colors[2] ELSE <<"#","7","6","4","b","a","2">>,
     anchor          |-> ReplaceChar(Lower(keyword), " ", "-"),
     breadcrumb      |-> keyword \o (IF city # EmptyStr THEN <<" ","/"," ">> \o city ELSE EmptyStr),
     serving         |-> OrElse(city, <<"M","u","l","t","i","p","l","e"," ","L","o","c","a","t","i","o","n","s">>)
                         \o (IF country # EmptyStr THEN <<","," ">> \o country ELSE EmptyStr)]

(* ---------------------------------------------------------------------- *)
(* Session state and the interactive surface                               *)
(* ---------------------------------------------------------------------- *)

VARIABLES
    api_key_input,        \* the credential text input (widget value)
    api_key_set,          \* st.session_state.api_key_set
    openai_api_key,       \* openai.api_key
    has_html,             \* 'html_content' in st.session_state
    html_content,         \* st.session_state.html_content
    colors,               \* st.session_state.colors
    fonts,                \* st.session_state.fonts
    keywords_list,        \* keywords_list of the current script run
    default_city,         \* default location inputs
    default_state,
    default_country,
    use_default_location, \* the "use default location" checkbox
    generated_pages,      \* st.session_state.generated_pages
    button,               \* the latest script run was started by "Generate All Pages"
    pc,                   \* "idle", or "running" inside the batch loop
    idx,                  \* number of records the running loop has finished
    progress,             \* numerator last given to progress_bar.progress
    status,               \* message the latest script run ended with
    calls,                \* the generator calls of the latest batch run (history)
    batch_started,        \* some batch run has started (history)
    stale_count,          \* length of the result list when the latest run started (history)
    zip_names,            \* file names written by the latest "Download All as ZIP"
    keyword_input,        \* SpecParse: argument of parse_keywords_input
    parsed,               \* SpecParse: [done, value]
    meta_args,            \* SpecMeta: arguments of generate_meta_tags
    meta_tags,            \* SpecMeta: [done, value]
    style_doc,            \* SpecStyle: argument of the style extractor
    style                 \* SpecStyle: [fn, matches, value], matches being re.findall's list

sessionVars ==
    <<api_key_input, api_key_set, openai_api_key, has_html, html_content, colors, fonts,
      keywords_list, default_city, default_state, default_country, use_default_location,
      generated_pages, button, pc, idx, progress, status, calls, batch_started,
      stale_count, zip_names>>

pureVars == <<keyword_input, parsed, meta_args, meta_tags, style_doc, style>>

vars == <<sessionVars, pureVars>>

\* values of openai.api_key: Python None, Python True, or a credential string
PyNoneKey == "None"
PyTrueKey == "True"
PyFalseKey == "False"

\* a Python bool where a credential is expected
BoolAsKey(b) == IF b THEN PyTrueKey ELSE PyFalseKey

\* the messages of st.error / st.success in the generate handler, without their
\* leading symbol; MsgGenerated stands for "Generated <count> pages!", the count being
\* Len(generated_pages); MsgException for the traceback of an uncaught exception
MsgNoKey == "Please set OpenAI API Key first!"
MsgNoKeywords == "Please add keywords!"
MsgNoHtml == "Please upload HTML file first!"
MsgGenerated == "Generated pages!"
MsgException == "uncaught exception"
MsgNone == ""

(* inputs a user can give in Spec *)

Credentials == {"sk-live"}

SessionDocs == {<<"<","b","o","d","y"," ","s","t","y","l","e","=","\"","c","o","l","o","r",":"," ","#","1","1","2","2","3","3",";"," ","f","o","n","t","-","f","a","m","i","l","y",":"," ","G","e","o","r","g","i","a",";","\"",">">>}

LongKeyword == [i \in 1..60 |-> "k"]

KeywordTexts ==
    {EmptyStr,
     <<"p","l","u","m","b","e","r","\n","e","l","e","c","t","r","i","c","i","a","n",","," ","N","e","w"," ","Y","o","r","k",","," ","N","Y",","," ","U","S","A">>,
     <<"#"," ","l","e","a","d","s","\n">> \o LongKeyword \o <<" ",","," ","P","a","r","i","s","\n","\n","r","o","o","f"," ","r","e","p","a","i","r">>}

DefaultLocations ==
    {<<EmptyStr, EmptyStr, EmptyStr>>, <<<<"R","o","m","e">>, <<"R","M">>, <<"I","T">>>>}

\* the keyword source once parsed, and the style source once analysed
KeywordsOf == [text \in KeywordTexts |-> parse_keywords_input(text)]
ColorsOf == [doc \in SessionDocs |-> extract_colors_from_html(doc)]
FontsOf == [doc \in SessionDocs |-> extract_fonts_from_html(doc)]

SessionInit ==
    /\ api_key_input = ""
    /\ api_key_set = FALSE
    /\ openai_api_key = PyNoneKey
    /\ has_html = FALSE
    /\ html_content = EmptyStr
    /\ colors = <<>>
    /\ fonts = <<>>
    /\ keywords_list = <<>>
    /\ default_city = EmptyStr
    /\ default_state = EmptyStr
    /\ default_country = EmptyStr
    /\ use_default_location = FALSE
    /\ generated_pages = <<>>
    /\ button = FALSE
    /\ pc = "idle"
    /\ idx = 0
    /\ progress = 0
    /\ status = MsgNone
    /\ calls = <<>>
    /\ batch_started = FALSE
    /\ stale_count = 0
    /\ zip_names = <<>>

PureInit ==
    /\ keyword_input = EmptyStr
    /\ parsed = [done |-> FALSE, value |-> <<>>]
    /\ meta_args = <<>>
    /\ meta_tags = [done |-> FALSE, value |-> <<>>]
    /\ style_doc = EmptyStr
    /\ style = [fn |-> "none", matches |-> <<>>, value |-> <<>>]

Init == SessionInit /\ PureInit

\* if api_key_input: set_openai_key(api_key_input), run at the top of every script run
ScriptTop(input) ==
    /\ api_key_set' = (IF input # "" THEN TRUE ELSE api_key_set)
    /\ openai_api_key' = (IF input # "" THEN input ELSE openai_api_key)

\* a script run that is not started by a button shows none of the handlers' output
NoHandler ==
    /\ button' = FALSE
    /\ status' = MsgNone
    /\ zip_names' = <<>>
    /\ UNCHANGED <<generated_pages, pc, idx, progress, calls, batch_started,
                   stale_count>>

EnterApiKey(k) ==
    /\ pc = "idle"
    /\ api_key_input' = k
    /\ ScriptTop(k)
    /\ NoHandler
    /\ UNCHANGED <<has_html, html_content, colors, fonts, keywords_list, default_city,
                   default_state, default_country, use_default_location>>
    /\ UNCHANGED pureVars

UploadHtml(doc) ==
    /\ pc = "idle"
    /\ ScriptTop(api_key_input)
    /\ has_html' = TRUE
    /\ html_content' = doc
    /\ colors' \in ColorsOf[doc]
    /\ fonts' \in FontsOf[doc]
    /\ NoHandler
    /\ UNCHANGED <<api_key_input, keywords_list, default_city, default_state,
                   default_country, use_default_location>>
    /\ UNCHANGED pureVars

EnterKeywords(text) ==
    /\ pc = "idle"
    /\ ScriptTop(api_key_input)
    /\ keywords_list' = KeywordsOf[text]
    /\ NoHandler
    /\ UNCHANGED <<api_key_input, has_html, html_content, colors, fonts, default_city,
                   default_state, default_country, use_default_location>>
    /\ UNCHANGED pureVars

EnterDefaultLocation(loc) ==
    /\ pc = "idle"
    /\ ScriptTop(api_key_input)
    /\ default_city' = loc[1]
    /\ default_state' = loc[2]
    /\ default_country' = loc[3]
    /\ NoHandler
    /\ UNCHANGED <<api_key_input, has_html, html_content, colors, fonts, keywords_list,
                   use_default_location>>
    /\ UNCHANGED pureVars

ToggleUseDefaultLocation ==
    /\ pc = "idle"
    /\ ScriptTop(api_key_input)
    /\ use_default_location' = ~use_default_location
    /\ NoHandler
    /\ UNCHANGED <<api_key_input, has_html, html_content, colors, fonts, keywords_list,
                   default_city, default_state, default_country>>
    /\ UNCHANGED pureVars

(* ---------------------------------------------------------------------- *)
(* Batch Orchestrator                                                      *)
(* ---------------------------------------------------------------------- *)

\* faulty variant of PreconditionError: the style source is not tested
PreconditionErrorWithoutStyle(key_set, kws, html) ==
    IF ~key_set THEN MsgNoKey
    ELSE IF kws = <<>> THEN MsgNoKeywords
    ELSE MsgNone

\* the first failing test of the if/elif chain, MsgNone when all three pass
PreconditionError(key_set, kws, html) ==
    IF ~key_set THEN MsgNoKey
    ELSE IF kws = <<>> THEN MsgNoKeywords
    ELSE IF ~html THEN MsgNoHtml
    ELSE MsgNone

\* faulty variant of ResetPages: the list is not emptied
KeepPages(pages) == pages

\* st.session_state.generated_pages = []
ResetPages(pages) == <<>>

\* faulty variant of EffectiveField: with the flag on the default replaces the own value
EffectiveFieldDefaultWins(own, default, use_default) ==
    IF use_default THEN OrElse(default, own) ELSE own

\* kw_item[f] or default if use_default_location else kw_item[f]
EffectiveField(own, default, use_default) ==
    IF use_default THEN OrElse(own, default) ELSE own

\* the credential argument of the generator call
CredentialArgument == BoolAsKey(api_key_set)

\* the dictionary appended to generated_pages
PageResult(keyword, city, state, country, content) ==
    LET meta == generate_meta_tags(keyword, city, country, content.intro)
    IN  [keyword |-> keyword,
         city    |-> city,
         country |-> country,
         html    |-> generate_html_page(keyword, city, state, country, content, meta,
                                        colors, fonts),
         content |-> content,
         meta    |-> meta]

\* the click on "Generate All Pages": the precondition chain, then the start of the loop
Generate ==
    /\ pc = "idle"
    /\ ScriptTop(api_key_input)
    /\ button' = TRUE
    /\ zip_names' = <<>>
    /\ LET err == PreconditionError(api_key_set', keywords_list, has_html)
       IN  IF err # MsgNone
           THEN /\ status' = err
                /\ UNCHANGED <<generated_pages, pc, idx, progress, calls,
                               batch_started, stale_count>>
           ELSE /\ generated_pages' = ResetPages(generated_pages)
                /\ pc' = "running"
                /\ idx' = 0
                /\ progress' = 0
                /\ status' = MsgNone
                /\ calls' = <<>>
                /\ batch_started' = TRUE
                /\ stale_count' = Len(generated_pages)
    /\ UNCHANGED <<api_key_input, has_html, html_content, colors, fonts, keywords_list,
                   default_city, default_state, default_country, use_default_location>>
    /\ UNCHANGED pureVars

\* one iteration of the loop over keywords_list, the service doing `outcome`
GenerateRecord(outcome) ==
    /\ pc = "running"
    /\ idx < Len(keywords_list)
    /\ LET kw_item == keywords_list[idx + 1]
           keyword == kw_item.keyword
           city    == EffectiveField(kw_item.city, default_city, use_default_location)
           state   == EffectiveField(kw_item.state, default_state, use_default_location)
           country == EffectiveField(kw_item.country, default_country, use_default_location)
           api_key == CredentialArgument
           content == generate_content_with_openai(keyword, city, state, country, outcome)
       IN  /\ openai_api_key' = api_key
           /\ calls' = Append(calls, [keyword |-> keyword, city |-> city, state |-> state,
                                      country |-> country, api_key |-> api_key,
                                      outcome |-> outcome])
           /\ IF content.truthy /\ content.type # "dict"
              THEN \* content.get raises AttributeError, which nothing catches
                   /\ pc' = "idle"
                   /\ status' = MsgException
                   /\ UNCHANGED <<generated_pages, idx, progress>>
              ELSE /\ IF content.truthy
                      THEN generated_pages' =
                               Append(generated_pages,
                                      PageResult(keyword, city, state, country, content))
                      ELSE UNCHANGED generated_pages
                   /\ progress' = idx + 1
                   /\ idx' = idx + 1
                   /\ UNCHANGED <<pc, status>>
    /\ UNCHANGED <<api_key_input, api_key_set, has_html, html_content, colors, fonts,
                   keywords_list, default_city, default_state, default_country,
                   use_default_location, button, batch_started, stale_count, zip_names>>
    /\ UNCHANGED pureVars

\* after the loop: the widgets are emptied and the count is reported
FinishBatch ==
    /\ pc = "running"
    /\ idx = Len(keywords_list)
    /\ pc' = "idle"
    /\ status' = MsgGenerated
    /\ UNCHANGED <<api_key_input, api_key_set, openai_api_key, has_html, html_content,
                   colors, fonts, keywords_list, default_city, default_state,
                   default_country, use_default_location, generated_pages, button, idx,
                   progress, calls, batch_started, stale_count, zip_names>>
    /\ UNCHANGED pureVars

(* ---------------------------------------------------------------------- *)
(* Export                                                                   *)
(* ---------------------------------------------------------------------- *)

\* f"{page['keyword'].replace(' ', '_')}_{page['city']}.html"
ZipFileName(page) == ReplaceChar(page.keyword, " ", "_") \o <<"_">> \o page.city \o <<".","h","t","m","l">>

\* the click on "Download All as ZIP", offered while the result list is not empty
DownloadZip ==
    /\ pc = "idle"
    /\ generated_pages # <<>>
    /\ ScriptTop(api_key_input)
    /\ button' = FALSE
    /\ status' = MsgNone
    /\ zip_names' = [i \in 1..Len(generated_pages) |-> ZipFileName(generated_pages[i])]
    /\ UNCHANGED <<api_key_input, has_html, html_content, colors, fonts, keywords_list,
                   default_city, default_state, default_country, use_default_location,
                   generated_pages, pc, idx, progress, calls, batch_started,
                   stale_count>>
    /\ UNCHANGED pureVars

Next ==
    \/ \E k \in Credentials \cup {""} : EnterApiKey(k)
    \/ \E doc \in SessionDocs : UploadHtml(doc)
    \/ \E text \in KeywordTexts : EnterKeywords(text)
    \/ \E loc \in DefaultLocations : EnterDefaultLocation(loc)
    \/ ToggleUseDefaultLocation
    \/ Generate
    \/ \E outcome \in ServiceOutcomes : GenerateRecord(outcome)
    \/ FinishBatch
    \/ DownloadZip

Spec == Init /\ [][Next]_vars

(* ---------------------------------------------------------------------- *)
(* The pure functions on their own inputs                                  *)
(* ---------------------------------------------------------------------- *)

\* all sequences over S of length at most n
SeqsUpTo(S, n) == UNION {[1..k -> S] : k \in 0..n}

\* n copies of the character c
Rep(c, n) == [i \in 1..n |-> c]

(* SpecParse: parse_keywords_input on every short text *)

ParseAlphabet == {"a", " ", ",", "#", "\n"}

InitParse ==
    /\ SessionInit
    /\ keyword_input \in SeqsUpTo(ParseAlphabet, MaxTextLen)
    /\ parsed = [done |-> FALSE, value |-> <<>>]
    /\ meta_args = <<>>
    /\ meta_tags = [done |-> FALSE, value |-> <<>>]
    /\ style_doc = EmptyStr
    /\ style = [fn |-> "none", matches |-> <<>>, value |-> <<>>]

Parse ==
    /\ ~parsed.done
    /\ parsed' = [done |-> TRUE, value |-> parse_keywords_input(keyword_input)]
    /\ UNCHANGED <<keyword_input, meta_args, meta_tags, style_doc, style>>
    /\ UNCHANGED sessionVars

SpecParse == InitParse /\ [][Parse]_vars

(* SpecMeta: generate_meta_tags on keywords of every length up to MaxKeywordLen *)

MetaKeywords ==
    {Rep("k", n) : n \in 0..MaxKeywordLen} \cup {<<"a"," "," ","b">>, <<"r","o","o","f"," "," "," ","r","e","p","a","i","r"," "," ">>}

MetaCities == {EmptyStr, <<"R","o","m","e">>, <<"N","e","w"," "," ","Y","o","r","k">>}

MetaCountries == {EmptyStr, <<"I","T">>}

MetaSummaries ==
    {EmptyStr, Rep("x", 79), Rep("x", 81), Rep("x", 40) \o <<" "," ">> \o Rep("y", 160)}

InitMeta ==
    /\ SessionInit
    /\ keyword_input = EmptyStr
    /\ parsed = [done |-> FALSE, value |-> <<>>]
    /\ meta_args \in MetaKeywords \X MetaCities \X MetaCountries \X MetaSummaries
    /\ meta_tags = [done |-> FALSE, value |-> <<>>]
    /\ style_doc = EmptyStr
    /\ style = [fn |-> "none", matches |-> <<>>, value |-> <<>>]

BuildMeta ==
    /\ ~meta_tags.done
    /\ meta_tags' = [done |-> TRUE,
                     value |-> generate_meta_tags(meta_args[1], meta_args[2], meta_args[3],
                                                  meta_args[4])]
    /\ UNCHANGED <<keyword_input, parsed, meta_args, style_doc, style>>
    /\ UNCHANGED sessionVars

SpecMeta == InitMeta /\ [][BuildMeta]_vars

(* SpecStyle: the style extractor on documents assembled from fragments *)

Pieces ==
    <<<<"a","{","c","o","l","o","r",":","#","1","1","2","2","3","3",";","b","a","c","k","g","r","o","u","n","d",":","r","g","b","(","1",",","2",",","3",")","}">>,
      <<"#","a","b","c">>,
      <<"d","e","f",";">>,
      <<"p","{","f","o","n","t","-","f","a","m","i","l","y",":"," ","A","r","i","a","l",";","}">>,
      <<"r","g","b","a","(","0",",","0",",","0",",",".","5",")"," ","#","A","B","C"," ">>,
      <<"F","O","N","T","-","F","A","M","I","L","Y",":","'","O","p","e","n"," ","S","a","n","s","'",";","f","o","n","t","-","f","a","m","i","l","y",":","\n","\"","R","o","b","o","t","o","\"",";">>,
      <<"b","o","r","d","e","r",":","1","p","x"," ","s","o","l","i","d"," ","#","1","1","2","2","3","3",";"," ","f","o","n","t","-","f","a","m","i","l","y",":"," ","A","r","i","a","l",";">>,
      <<"f","o","n","t","-","f","a","m","i","l","y",":"," ","G","e","o","r","g","i","a",","," ","s","e","r","i","f",";","#","f","e",";","r","g","b","(",")">>,
      <<"c","o","l","o","r",":","#","f","0","0",";","f","o","n","t","-","f","a","m","i","l","y",":","V","e","r","d","a","n","a">>,
      <<"f","o","n","t","-","f","a","m","i","l","y",":"," ",";","#","f","0","0"," ","f","o","n","t","-","f","a","m","i","l","y",":"," ","'","L","a","t","o","'",","," ","A","r","i","a","l",";">>,
      <<"r","g","b","(","9">>>>

PieceAt(i) == Pieces[((i - 1) % Len(Pieces)) + 1]

\* the fragments numbered in S, in increasing order, concatenated
RECURSIVE Assemble(_)
Assemble(S) ==
    IF S = {} THEN EmptyStr
    ELSE LET i == MinOf(S) IN PieceAt(i) \o Assemble(S \ {i})

StyleDocs == {Assemble(S) : S \in SUBSET (1..NumPieces)}

InitStyle ==
    /\ SessionInit
    /\ keyword_input = EmptyStr
    /\ parsed = [done |-> FALSE, value |-> <<>>]
    /\ meta_args = <<>>
    /\ meta_tags = [done |-> FALSE, value |-> <<>>]
    /\ style_doc \in StyleDocs
    /\ style = [fn |-> "none", matches |-> <<>>, value |-> <<>>]

\* what an extractor leaves: the list re.findall gave and one list it can return
StyleResults(fn, matches, lists) ==
    {[fn |-> fn, matches |-> matches, value |-> found] : found \in lists}

ExtractColors ==
    /\ style.fn = "none"
    /\ style' \in StyleResults("colors", FindColors(style_doc, 1),
                                extract_colors_from_html(style_doc))
    /\ UNCHANGED <<keyword_input, parsed, meta_args, meta_tags, style_doc>>
    /\ UNCHANGED sessionVars

ExtractFonts ==
    /\ style.fn = "none"
    /\ style' \in StyleResults("fonts", FindFonts(style_doc, 1),
                                extract_fonts_from_html(style_doc))
    /\ UNCHANGED <<keyword_input, parsed, meta_args, meta_tags, style_doc>>
    /\ UNCHANGED sessionVars

NextStyle == ExtractColors \/ ExtractFonts

SpecStyle == InitStyle /\ [][NextStyle]_vars

(* ---------------------------------------------------------------------- *)
(* Properties                                                              *)
(* ---------------------------------------------------------------------- *)

\* the latest script run was a batch run and the inputs are those it ran with
BatchInView == pc = "running" \/ status \in {MsgGenerated, MsgException}

\* the latest script run was a batch run and it is over
BatchOver == pc = "idle" /\ status \in {MsgGenerated, MsgException}

NoCredential == ~api_key_set
NoKeywords == keywords_list = <<>>
NoStyleSource == ~has_html

\* C1: a generate trigger met with a violated precondition (no credential, no
\* keywords, no style source) ends with the message of a violated precondition, the
\* three messages being pairwise different, and does no work: the generator is not
\* called and the result list is what it was before the trigger.
C1_BlockedTriggerDoesNoWork ==
    [][(pc = "idle" /\ button' /\ (NoCredential \/ NoKeywords \/ NoStyleSource))
          => /\ Cardinality({MsgNoKey, MsgNoKeywords, MsgNoHtml}) = 3
             /\ status' \in {MsgNoKey, MsgNoKeywords, MsgNoHtml}
             /\ status' = MsgNoKey => NoCredential
             /\ status' = MsgNoKeywords => NoKeywords
             /\ status' = MsgNoHtml => NoStyleSource
             /\ pc' = "idle"
             /\ calls' = calls
             /\ generated_pages' = generated_pages]_vars

\* a trigger was blocked for want of keywords while results of an earlier run exist
C1_Witness ==
    /\ pc = "idle"
    /\ button
    /\ status = MsgNoKeywords
    /\ generated_pages # <<>>

\* number of generator calls of the latest run the service answered with a reply
AnsweredCalls == Cardinality({i \in 1..Len(calls) : calls[i].outcome # "error"})

\* C2: a batch run over N records of which M generator calls succeed ends with
\* exactly M PageResults and with progress N/N, whatever each call's outcome was
\* (service exception, unparseable reply, or any parseable reply).
C2_RunEndsWithMPagesAndFullProgress ==
    BatchOver =>
        /\ Len(generated_pages) = AnsweredCalls
        /\ progress = Len(keywords_list)

\* C3: every record whose service call returned a reply yields a PageResult (a reply
\* that is not the expected structured data is replaced by the fallback content),
\* so no such record is dropped and the batch is never aborted by the reply's text.
C3_EveryReplyYieldsAPage ==
    BatchInView =>
        /\ status # MsgException
        /\ \A i \in 1..Len(calls) :
               calls[i].outcome # "error" =>
                   \E j \in 1..Len(generated_pages) :
                       /\ generated_pages[j].keyword = calls[i].keyword
                       /\ j = Cardinality({k \in 1..i : calls[k].outcome # "error"})

\* C4: in a batch run the generator is called exactly once for each keyword record,
\* in input order; a service failure on one record is not retried and does not stop
\* the later records from being attempted.
C4_OneCallPerRecordInOrder ==
    BatchOver =>
        /\ Len(calls) = Len(keywords_list)
        /\ \A i \in 1..Len(calls) : calls[i].keyword = keywords_list[i].keyword

\* the lines of a text, as they stand
LinesOf(text) == Split(text, "\n")

\* a line that is not empty once trimmed and is no comment
IsRecordLine(line) == Strip(line) # EmptyStr /\ Head(Strip(line)) # "#"

\* the trimmed k-th comma-separated field of a line, empty when the line has fewer
FieldOf(line, k) ==
    LET fields == Split(line, ",")
    IN  IF k <= Len(fields) THEN Strip(fields[k]) ELSE EmptyStr

RecordOf(line) ==
    [keyword |-> FieldOf(line, 1), city |-> FieldOf(line, 2),
     state |-> FieldOf(line, 3), country |-> FieldOf(line, 4)]

ExpectedRecords(text) ==
    LET kept == SelectSeq(LinesOf(text), IsRecordLine)
    IN  [i \in 1..Len(kept) |-> RecordOf(kept[i])]

\* C5: parse_keywords_input returns one record per line that is not empty once
\* trimmed and does not start with '#', in input order, duplicates kept; the record's
\* keyword, city, state, country are the trimmed 1st to 4th comma-separated fields of
\* the line, a missing field being the empty string.
C5_ParserReturnsOneRecordPerLine ==
    parsed.done => parsed.value = ExpectedRecords(keyword_input)

\* two records from two lines, the second a duplicate of the first's keyword, the
\* first with a city and the second with none
C5_Witness ==
    /\ parsed.done
    /\ Len(parsed.value) = 2
    /\ parsed.value[1].keyword = parsed.value[2].keyword
    /\ parsed.value[1].city # EmptyStr
    /\ parsed.value[2].city = EmptyStr

WithinBudget(meta) ==
    Len(meta.title) <= 55 /\ Len(meta.description) <= 155

\* C6: generate_meta_tags returns a title of at most 55 characters and a description
\* of at most 155 characters for every keyword, city, country and summary, and so
\* does the meta of every PageResult in the result list.
C6_MetaWithinBudget ==
    /\ meta_tags.done => WithinBudget(meta_tags.value)
    /\ \A i \in 1..Len(generated_pages) : WithinBudget(generated_pages[i].meta)

\* a keyword longer than the title budget, both texts cut at their budgets
C6_Witness ==
    /\ meta_tags.done
    /\ Len(meta_args[1]) > 55
    /\ Len(meta_tags.value.title) = 55
    /\ Len(meta_tags.value.description) = 155

IsInjective(s) == \A i, j \in 1..Len(s) : s[i] = s[j] => i = j

\* C7: the style extractor returns at most 5 colors, pairwise distinct, and at most 3
\* fonts, pairwise distinct, all of them occurring in the document; with no
\* font-family declaration it returns the fallback list Arial, Helvetica, sans-serif;
\* with no color it returns the empty list.
C7_StyleListsAreCappedAndDistinct ==
    /\ style.fn = "colors" =>
           /\ Len(style.value) <= 5
           /\ IsInjective(style.value)
           /\ Range(style.value) \subseteq Range(style.matches)
           /\ style.matches = <<>> => style.value = <<>>
    /\ style.fn = "fonts" =>
           /\ Len(style.value) <= 3
           /\ IsInjective(style.value)
           /\ style.matches # <<>> => Range(style.value) \subseteq Range(style.matches)
           /\ style.matches = <<>> =>
                  style.value = <<<<"A","r","i","a","l">>, <<"H","e","l","v","e","t","i","c","a">>, <<"s","a","n","s","-","s","e","r","i","f">>>>

\* a document with more than 5 different colors, one of them repeated, cut to 5
C7_Witness ==
    /\ style.fn = "colors"
    /\ Len(style.value) = 5
    /\ Cardinality(Range(style.matches)) > 5
    /\ Len(style.matches) > Cardinality(Range(style.matches))

\* C8: the ZIP export holds one HTML file per PageResult, named from the record's
\* keyword and city with spaces replaced, so that no file name contains a space.
C8_ZipNamesHaveNoSpace ==
    zip_names # <<>> =>
        /\ Len(zip_names) = Len(generated_pages)
        /\ \A i \in 1..Len(zip_names) : " " \notin Range(zip_names[i])

\* the value the claim gives a location field of a record
ClaimedField(own, default) ==
    IF own # EmptyStr \/ ~use_default_location THEN own ELSE default

\* C9: for every record and each of city, state and country, the value used for
\* generation is the record's own value when that is not empty or the flag is off,
\* and the session default only when the flag is on and the own value is empty.
C9_EffectiveLocation ==
    BatchInView =>
        \A i \in 1..Len(calls) :
            /\ calls[i].city = ClaimedField(keywords_list[i].city, default_city)
            /\ calls[i].state = ClaimedField(keywords_list[i].state, default_state)
            /\ calls[i].country = ClaimedField(keywords_list[i].country, default_country)

\* flag on, defaults set: one record took the default city, another kept its own
C9_Witness ==
    /\ BatchInView
    /\ use_default_location
    /\ default_city # EmptyStr
    /\ \E i, j \in 1..Len(calls) :
           /\ keywords_list[i].city = EmptyStr
           /\ calls[i].city = default_city
           /\ keywords_list[j].city # EmptyStr
           /\ keywords_list[j].city # default_city
           /\ calls[j].city = keywords_list[j].city

\* the generator calls of the latest run that led to a PageResult
PageCalls == SelectSeq(calls, LAMBDA c : c.outcome \in {"text", "json_object"})

\* C10: once a batch run has started, the result list holds exactly the PageResults
\* of the most recent run, in order, and none of an earlier run, also when the most
\* recent run produced no page.
C10_ResultsAreThoseOfLatestRun ==
    batch_started =>
        /\ Len(generated_pages) = Len(PageCalls)
        /\ \A i \in 1..Len(generated_pages) :
               /\ generated_pages[i].keyword = PageCalls[i].keyword
               /\ generated_pages[i].city = PageCalls[i].city
               /\ generated_pages[i].country = PageCalls[i].country

\* a run that found earlier results in the list has ended with an empty list
C10_Witness ==
    /\ pc = "idle"
    /\ status = MsgGenerated
    /\ stale_count > 0
    /\ calls # <<>>
    /\ generated_pages = <<>>

\* C11: for every record of a batch run, the credential the loop passes to the
\* generator, and the generator installs as openai.api_key, is the credential the
\* user entered (a value of the credential input, not the credential-present flag).
C11_CredentialPassedIsTheOneEntered ==
    BatchInView =>
        /\ \A i \in 1..Len(calls) :
               /\ calls[i].api_key \in Credentials
               /\ api_key_input # "" => calls[i].api_key = api_key_input
        /\ calls # <<>> => openai_api_key = calls[Len(calls)].api_key

====
